---- MODULE Spec2Model ----
(***************************************************************************)
(* Model of the coherence retry orchestrator of src/src/coherence_example.py *)
(* (ask_zai, load_prompts, is_coherent, MockCompletions.create_async).     *)
(*                                                                         *)
(* Texts are Python str values, modelled as sequences of one-character     *)
(* strings.  Every letter of a prompt or of a mock reply stands for one    *)
(* word of the Portuguese original; " " is whitespace and "." is a dot, so *)
(* str.strip and str.endswith("...") are computed as Python computes them. *)
(***************************************************************************)
EXTENDS Integers, Sequences, FiniteSets, TLC

\* ------------------------------------------------------------------ bounds
\* max_retries ranges over 0..MaxRetries
MaxRetries == 2

\* ------------------------------------------------------------------- texts
\* Python's None, kept apart from every str
None == <<"<None>">>

\* a key the configuration does not supply
Missing == <<"<missing>">>

\* the characters str.strip removes
Whitespace == {" "}

RECURSIVE lstrip(_)
lstrip(t) == IF t # <<>> /\ Head(t) \in Whitespace THEN lstrip(Tail(t)) ELSE t

RECURSIVE rstrip(_)
rstrip(t) ==
    IF t # <<>> /\ t[Len(t)] \in Whitespace
    THEN rstrip(SubSeq(t, 1, Len(t) - 1))
    ELSE t

\* str.strip()
strip(t) == rstrip(lstrip(t))

\* str.endswith(suffix)
endswith(t, suffix) ==
    /\ Len(t) >= Len(suffix)
    /\ SubSeq(t, Len(t) - Len(suffix) + 1, Len(t)) = suffix

\* str.lower(): "C" is the capitalised word "Critique" of the default prompt
lower(t) == [i \in DOMAIN t |-> IF t[i] = "C" THEN "c" ELSE t[i]]

\* `word in text`, for a one-word needle
contains(t, word) == \E i \in DOMAIN t : t[i] = word

\* the literal "..."
Ellipsis == <<".", ".", ".">>

\* mutant: any non-empty text passes
is_coherent_no_suffix_rule(text) == text # <<>>

\* mutant: the text is not stripped before the suffix test
is_coherent_no_strip(text) ==
    IF text = <<>> THEN FALSE
    ELSE IF endswith(text, Ellipsis) THEN FALSE
    ELSE TRUE

\* is_coherent(text)
is_coherent(text) ==
    IF text = <<>> THEN FALSE
    ELSE IF endswith(strip(text), Ellipsis) THEN FALSE
    ELSE TRUE

\* ----------------------------------------------------------- prompt loading
Keys == {"system_prompt", "reprompt", "critique_prompt", "improve_prompt"}

\* the hardcoded table of load_prompts; "r" is the word "reformule", "C" the
\* word "Critique", "b" the phrase "base na sua critica"
default_prompts ==
    [system_prompt   |-> <<"S">>,
     reprompt        |-> <<"R", "r">>,
     critique_prompt |-> <<"C", "f">>,
     improve_prompt  |-> <<"b", "n">>]

\* no exception
NoExc == "none"

\* what a key of the `prompts` section of config.yaml can hold
PromptValues == {Missing, None, <<>>, <<"x">>}

AllMissing == [k \in Keys |-> Missing]

\* the states of the configuration source CONFIG_PATH:
\*   file    absent | unparsable | ok
\*   doc     what yaml.safe_load returns: none (empty document), scalar (a
\*           list or a string), map
\*   section the value of config["prompts"]: absent | none | scalar | map
\*   prompts the keys of that mapping
Configs ==
    {[file |-> f, doc |-> "none", section |-> "absent", prompts |-> AllMissing] :
        f \in {"absent", "unparsable", "ok"}}
    \cup
    {[file |-> "ok", doc |-> "scalar", section |-> "absent", prompts |-> AllMissing]}
    \cup
    {[file |-> "ok", doc |-> "map", section |-> s, prompts |-> AllMissing] :
        s \in {"absent", "none", "scalar"}}
    \cup
    {[file |-> "ok", doc |-> "map", section |-> "map", prompts |-> p] :
        p \in [Keys -> PromptValues]}

\* {**default_prompts, **prompts}: a supplied key takes precedence
merge(defaults, prompts) ==
    [k \in Keys |-> IF prompts[k] # Missing THEN prompts[k] ELSE defaults[k]]

\* load_prompts(): [exc |-> the exception that leaves it, value |-> the dict
\* it returns]
load_prompts(cfg) ==
    CASE cfg.file = "absent" ->
            \* except FileNotFoundError
            [exc |-> NoExc, value |-> default_prompts]
      [] cfg.file = "unparsable" ->
            \* except yaml.YAMLError
            [exc |-> NoExc, value |-> default_prompts]
      [] cfg.file = "ok" /\ cfg.doc # "map" ->
            \* config.get on None, a list or a str
            [exc |-> "AttributeError", value |-> AllMissing]
      [] cfg.file = "ok" /\ cfg.doc = "map" /\ cfg.section = "absent" ->
            [exc |-> NoExc, value |-> merge(default_prompts, AllMissing)]
      [] cfg.file = "ok" /\ cfg.doc = "map" /\ cfg.section \in {"none", "scalar"} ->
            \* {**default_prompts, **prompts} on something that is no mapping
            [exc |-> "TypeError", value |-> AllMissing]
      [] OTHER ->
            [exc |-> NoExc, value |-> merge(default_prompts, cfg.prompts)]

\* ------------------------------------------------------------- the client
\* MockCompletions(incoherent_attempts=...) is built with 0..MaxIncoherentAttempts
MaxIncoherentAttempts == 2

\* a client is the mock of the repository or a scripted double that may
\* answer any text of ScriptAnswers, or raise, on any call
Clients ==
    {[kind |-> "script", incoherent_attempts |-> 0, always_incoherent |-> FALSE]}
    \cup
    {[kind |-> "mock", incoherent_attempts |-> k, always_incoherent |-> b] :
        k \in 0..MaxIncoherentAttempts, b \in BOOLEAN}

\* the answers of the scripted double: empty, incoherent with trailing
\* whitespace, coherent with surrounding whitespace, whitespace only
ScriptAnswers ==
    {<<>>, <<"a", ".", ".", ".", " ">>, <<" ", "a", " ">>, <<" ">>}

\* the failures a client raises (ZAIError subclasses)
Failures == {"RateLimitError", "ServerError"}

\* "Isso tambem e incoerente..."
AlwaysReply == <<"I", ".", ".", ".">>

\* "A resposta anterior era vaga e terminava abruptamente."
CritiqueReply == <<"A", "v", ".">>

\* "Aprendizado supervisionado e... hmm... e o outro e... nao sei..."
IncoherentReply == <<"A", ".", ".", ".", "n", ".", ".", ".">>

\* f"Claro, aqui esta uma resposta coerente e completa para a sua pergunta: '{question_key}'"
ImproveReply(question_key) == <<"K", "'">> \o question_key \o <<"'">>

\* f"Esta e uma resposta coerente para '{question_key}'."
CoherentReply(question_key) == <<"E", "'">> \o question_key \o <<"'", ".">>

\* next((m["content"] for m in messages if m["role"] == "user"), None)
first_user(msgs) ==
    IF \E i \in DOMAIN msgs : msgs[i].role = "user"
    THEN msgs[CHOOSE i \in DOMAIN msgs :
                /\ msgs[i].role = "user"
                /\ \A j \in 1..(i - 1) : msgs[j].role # "user"].content
    ELSE None

\* self._call_counts.get(question_key, 0)
get_count(counts, question_key) ==
    IF question_key \in DOMAIN counts THEN counts[question_key] ELSE 0

\* MockCompletions.create_async(messages): the reply, the exception and the
\* call counts it leaves
create_async(cl, counts, msgs) ==
    IF cl.always_incoherent
    THEN [exc |-> NoExc, text |-> AlwaysReply, counts |-> counts]
    ELSE
        LET user_content == msgs[Len(msgs)].content
            question_key == first_user(msgs)
            count        == get_count(counts, question_key) + 1
            counted      == [k \in DOMAIN counts \cup {question_key} |->
                                IF k = question_key THEN count ELSE counts[k]]
        IN  IF user_content = None
            THEN \* None has no lower()
                 [exc |-> "AttributeError", text |-> <<>>, counts |-> counted]
            ELSE IF contains(lower(user_content), "c")
            THEN [exc |-> NoExc, text |-> CritiqueReply, counts |-> counted]
            ELSE IF contains(lower(user_content), "b")
            THEN [exc |-> NoExc, text |-> ImproveReply(question_key), counts |-> counted]
            ELSE IF count <= cl.incoherent_attempts
            THEN [exc |-> NoExc, text |-> IncoherentReply, counts |-> counted]
            ELSE [exc |-> NoExc, text |-> CoherentReply(question_key), counts |-> counted]

\* ------------------------------------------------------------------ ask_zai
\* the questions a caller passes: empty, whitespace only, plain, with
\* leading whitespace
Questions == {<<>>, <<" ">>, <<" ", " ">>, <<"q">>, <<" ", "q">>}

\* the configuration states ask_zai is run against: file absent, empty
\* document, prompts: null, all four keys supplied, critique_prompt null and
\* system_prompt empty
AskConfigs ==
    {c \in Configs :
        \/ c.file = "absent"
        \/ c.file = "ok" /\ c.doc = "none"
        \/ c.file = "ok" /\ c.doc = "map" /\ c.section = "none"
        \/ c.file = "ok" /\ c.section = "map" /\ c.prompts = [k \in Keys |-> <<"x">>]
        \/ c.file = "ok" /\ c.section = "map"
              /\ c.prompts = [AllMissing EXCEPT !.critique_prompt = None,
                                                !.system_prompt = <<>>]}

VARIABLES
    config,                     \* the state of CONFIG_PATH
    client,                     \* the client passed to ask_zai
    call_counts,                \* MockCompletions._call_counts
    pc,                         \* where ask_zai is
    question,                   \* ask_zai's arguments
    max_retries,
    prompts,                    \* ask_zai's locals
    messages,
    answer,
    critique,
    attempt,
    is_final_answer_coherent,
    pending,                    \* the message list of the call in flight
    response,                   \* the client's reply, not yet observed
    calls,                      \* every client call issued, in order
    result,                     \* what ask_zai returned
    raised,                     \* the exception that left ask_zai
    loads,                      \* how many times load_prompts ran
    lists,                      \* the list objects handed to the calls, as they are now
    touched,                    \* the calls whose list the client has changed
    checked,                    \* the argument of is_coherent called on its own
    verdicts,                   \* what is_coherent returned for it, call after call
    inv                         \* the locals of ask_zai invocations run concurrently

vars ==
    <<config, client, call_counts, pc, question, max_retries, prompts, messages,
      answer, critique, attempt, is_final_answer_coherent, pending, response,
      calls, result, raised, loads, lists, touched, checked, verdicts, inv>>

\* what a single ask_zai invocation and its client never write
aside == <<touched, checked, verdicts, inv>>

\* no reply yet
NoResponse == [exc |-> "pending", text |-> <<>>]

\* ask_zai has not returned
NoResult == None

Message(role, content) == [role |-> role, content |-> content]

\* mutant: the whitespace-only case is forgotten
is_blank_empty_only(q) == q = <<>>

\* `not question or not question.strip()`
is_blank(q) == q = <<>> \/ strip(q) = <<>>

\* mutant: the question is put before the system prompt
start_user_first(system_prompt, q) ==
    <<Message("user", q), Message("system", system_prompt)>>

\* messages = [system_prompt, {"role": "user", "content": question}]
start(system_prompt, q) == <<Message("system", system_prompt), Message("user", q)>>

\* mutant: the correction is sent without the history, as the single-retry
\* version of ask_zai did
append_correction_no_history(msgs, bad, correction) ==
    <<msgs[1], Message("user", correction)>>

\* mutant: only the prompt is appended, the reply is dropped
append_correction_user_only(msgs, bad, correction) ==
    Append(msgs, Message("user", correction))

\* mutant: the prompt is appended before the reply it is about
append_correction_swapped(msgs, bad, correction) ==
    msgs \o <<Message("user", correction), Message("assistant", bad)>>

\* messages.append(assistant(bad)); messages.append(user(correction))
append_correction(msgs, bad, correction) ==
    msgs \o <<Message("assistant", bad), Message("user", correction)>>

\* messages.copy(): the list handed to create_async
copy(msgs) == msgs

\* mutant: the budget is tested before the coherence of the answer
after_initial_budget_first(text, a, r) ==
    IF a < r THEN "self_correct"
    ELSE IF is_coherent(text) THEN "break"
    ELSE "exhausted"

\* mutant: the last attempt still runs a self-correction round
after_initial_one_more(text, a, r) ==
    IF is_coherent(text) THEN "break"
    ELSE IF a <= r THEN "self_correct"
    ELSE "exhausted"

\* what the loop does with the answer of the attempt's first call
after_initial(text, a, r) ==
    IF is_coherent(text) THEN "break"
    ELSE IF a < r THEN "self_correct"
    ELSE "exhausted"

\* mutant: the improved answer is never tested
after_improve_no_break(text) == "next_attempt"

\* what the loop does with the improved answer
after_improve(text) == IF is_coherent(text) THEN "break" ELSE "next_attempt"

\* mutant: the improve step tests the critique
judged_critique(improved, critic) == critic

\* the text line 164 tests, of the improved answer and the critique in
\* scope there: is_coherent(answer)
judged(improved, critic) == improved

\* mutant: the answer is returned as received
returned_untrimmed(text) == text

\* return answer.strip()
returned(text) == strip(text)

\* mutant: the conversation itself is handed over, as the single-retry
\* version of ask_zai did (messages=messages)
handle_conversation(n) == 0

\* the list object handed to call n: messages.copy() makes a new object per
\* call; object 0 is the conversation
handle(n) == n

\* a call is issued: it is recorded and left in flight
Issue(kind, a, msgs) ==
    /\ pending' = copy(msgs)
    /\ response' = NoResponse
    /\ calls' = Append(calls, [kind |-> kind, attempt |-> a, messages |-> copy(msgs),
                               exc |-> "pending", text |-> <<>>])
    /\ lists' = Append(lists, copy(msgs))

TypeOK ==
    /\ config \in Configs
    /\ client \in Clients
    /\ pc \in {"idle", "await_initial", "await_critique", "await_improve",
               "done", "raised"}
    /\ max_retries \in 0..MaxRetries
    /\ attempt \in 0..MaxRetries
    /\ is_final_answer_coherent \in BOOLEAN
    /\ loads \in 0..1

Init ==
    /\ config \in AskConfigs
    /\ client \in Clients
    /\ call_counts = <<>>
    /\ pc = "idle"
    /\ question = <<>>
    /\ max_retries = 0
    /\ prompts = AllMissing
    /\ messages = <<>>
    /\ answer = <<>>
    /\ critique = <<>>
    /\ attempt = 0
    /\ is_final_answer_coherent = FALSE
    /\ pending = <<>>
    /\ response = NoResponse
    /\ calls = <<>>
    /\ result = NoResult
    /\ raised = NoExc
    /\ loads = 0
    /\ lists = <<>>
    /\ touched = {}
    /\ checked = <<>>
    /\ verdicts = <<>>
    /\ inv = <<>>

\* ask_zai(question, client, max_retries) up to its first await
ask_zai ==
    /\ pc = "idle"
    /\ \E q \in Questions, r \in 0..MaxRetries :
        /\ question' = q
        /\ max_retries' = r
        /\ IF is_blank(q)
           THEN /\ pc' = "done"
                /\ result' = <<>>
                /\ UNCHANGED <<prompts, messages, pending, response, calls, raised,
                               loads, lists>>
           ELSE LET loaded == load_prompts(config) IN
                /\ loads' = loads + 1
                /\ IF loaded.exc # NoExc
                   THEN /\ pc' = "raised"
                        /\ raised' = loaded.exc
                        /\ UNCHANGED <<prompts, messages, pending, response, calls,
                                       result, lists>>
                   ELSE /\ prompts' = loaded.value
                        /\ messages' = start(loaded.value.system_prompt, q)
                        /\ Issue("initial", 0, messages')
                        /\ pc' = "await_initial"
                        /\ UNCHANGED <<result, raised>>
    /\ UNCHANGED <<config, client, call_counts, answer, critique, attempt,
                   is_final_answer_coherent>>
    /\ UNCHANGED aside

\* the reply is recorded against the call in flight
Reply(exc, text) ==
    /\ response' = [exc |-> exc, text |-> text]
    /\ pending' = <<>>
    /\ calls' = [calls EXCEPT ![Len(calls)].exc = exc, ![Len(calls)].text = text]
    /\ UNCHANGED lists

\* MockCompletions.create_async completes
mock_create_async ==
    /\ pending # <<>>
    /\ client.kind = "mock"
    /\ LET r == create_async(client, call_counts, pending) IN
        /\ Reply(r.exc, r.text)
        /\ call_counts' = r.counts
    /\ UNCHANGED <<config, client, pc, question, max_retries, prompts, messages,
                   answer, critique, attempt, is_final_answer_coherent, result,
                   raised, loads>>
    /\ UNCHANGED aside

\* a scripted client answers
script_create_async ==
    /\ pending # <<>>
    /\ client.kind = "script"
    /\ \E t \in ScriptAnswers : Reply(NoExc, t)
    /\ UNCHANGED <<config, client, call_counts, pc, question, max_retries, prompts,
                   messages, answer, critique, attempt, is_final_answer_coherent,
                   result, raised, loads>>
    /\ UNCHANGED aside

\* a scripted client raises
script_raise ==
    /\ pending # <<>>
    /\ client.kind = "script"
    /\ \E f \in Failures : Reply(f, <<>>)
    /\ UNCHANGED <<config, client, call_counts, pc, question, max_retries, prompts,
                   messages, answer, critique, attempt, is_final_answer_coherent,
                   result, raised, loads>>
    /\ UNCHANGED aside

\* mutant: the failure is caught and an empty answer returned
propagate_swallowed ==
    /\ pc' = "done"
    /\ result' = <<>>
    /\ response' = NoResponse
    /\ UNCHANGED <<messages, answer, critique, attempt, is_final_answer_coherent,
                   pending, calls, raised, lists>>

\* an awaited call raised: nothing catches it
propagate ==
    /\ pc' = "raised"
    /\ raised' = response.exc
    /\ response' = NoResponse
    /\ UNCHANGED <<messages, answer, critique, attempt, is_final_answer_coherent,
                   pending, calls, result, lists>>

\* ask_zai returns
return(text) ==
    /\ pc' = "done"
    /\ result' = returned(text)
    /\ response' = NoResponse
    /\ UNCHANGED <<pending, calls, raised, lists>>

\* mutant: every attempt starts from the system prompt and the question
loop_conversation_fresh(msgs) == <<msgs[1], msgs[2]>>

\* the conversation an attempt starts with: messages is built before the
\* loop (line 125), the loop body does not rebuild it
loop_conversation(msgs) == msgs

\* mutant: the call is started and not awaited
awaited_not == TRUE

\* await create_async(...): ask_zai goes on only with the reply
awaited == response # NoResponse

\* the attempt's first call returns: lines 135-151
resume_initial ==
    /\ pc = "await_initial"
    /\ awaited
    /\ IF response.exc # NoExc
       THEN propagate
       ELSE /\ answer' = response.text
            /\ LET branch == after_initial(response.text, attempt, max_retries) IN
               CASE branch = "break" ->
                       /\ is_final_answer_coherent' = TRUE
                       /\ return(response.text)
                       /\ UNCHANGED <<messages, critique, attempt>>
                 [] branch = "self_correct" ->
                       /\ messages' = append_correction(messages, response.text,
                                                        prompts.critique_prompt)
                       /\ Issue("critique", attempt, messages')
                       /\ pc' = "await_critique"
                       /\ UNCHANGED <<critique, attempt, is_final_answer_coherent,
                                      result, raised>>
                 [] OTHER ->
                       /\ return(response.text)
                       /\ UNCHANGED <<messages, critique, attempt,
                                      is_final_answer_coherent>>
    /\ UNCHANGED <<config, client, call_counts, question, max_retries, prompts, loads>>
    /\ UNCHANGED aside

\* the critique call returns: lines 152-160
resume_critique ==
    /\ pc = "await_critique"
    /\ awaited
    /\ IF response.exc # NoExc
       THEN propagate
       ELSE /\ critique' = response.text
            /\ messages' = append_correction(messages, response.text,
                                             prompts.improve_prompt)
            /\ Issue("improve", attempt, messages')
            /\ pc' = "await_improve"
            /\ UNCHANGED <<answer, attempt, is_final_answer_coherent, result, raised>>
    /\ UNCHANGED <<config, client, call_counts, question, max_retries, prompts, loads>>
    /\ UNCHANGED aside

\* the improve call returns: lines 161-166, then the next iteration's call
resume_improve ==
    /\ pc = "await_improve"
    /\ awaited
    /\ IF response.exc # NoExc
       THEN propagate
       ELSE /\ answer' = response.text
            /\ IF after_improve(judged(response.text, critique)) = "break"
               THEN /\ is_final_answer_coherent' = TRUE
                    /\ return(response.text)
                    /\ UNCHANGED <<messages, critique, attempt>>
               ELSE /\ attempt' = attempt + 1
                    /\ Issue("initial", attempt + 1, loop_conversation(messages))
                    /\ pc' = "await_initial"
                    /\ UNCHANGED <<messages, critique, is_final_answer_coherent,
                                   result, raised>>
    /\ UNCHANGED <<config, client, call_counts, question, max_retries, prompts, loads>>
    /\ UNCHANGED aside

Next ==
    \/ ask_zai
    \/ mock_create_async
    \/ script_create_async
    \/ script_raise
    \/ resume_initial
    \/ resume_critique
    \/ resume_improve

Spec == Init /\ [][Next]_vars

\* ------------------------------------------------------------ observations
\* empty or whitespace only
AllWhitespace(q) == \A i \in DOMAIN q : q[i] \in Whitespace

NonBlank == pc # "idle" /\ ~AllWhitespace(question)

\* the client answered call c / answered it incoherently / raised on it
Answered(c) == c.exc = NoExc
Incoherent(c) == Answered(c) /\ ~is_coherent(c.text)
Coherent(c) == Answered(c) /\ is_coherent(c.text)
Failed(c) == c.exc \notin {NoExc, "pending"}

LastCall == calls[Len(calls)]

\* the self-correction rounds that were run
Rounds == Cardinality({i \in DOMAIN calls : calls[i].kind = "critique"})

\* s is a prefix of t
IsPrefix(s, t) == Len(s) <= Len(t) /\ SubSeq(t, 1, Len(s)) = s

\* load_prompts raised inside ask_zai
LoadFailed == pc = "raised" /\ calls = <<>>

\* ----------------------------------------------------------------------- C1
\* C1: for a question that is empty or whitespace only, whatever max_retries
\* and the client are, ask_zai has returned "" without loading prompts,
\* without a client call and without an exception.
C1_BlankReturnsEmpty ==
    (pc # "idle" /\ AllWhitespace(question)) =>
        /\ pc = "done"
        /\ result = <<>>
        /\ loads = 0
        /\ calls = <<>>
        /\ pending = <<>>
        /\ raised = NoExc

C1_Witness ==
    /\ pc = "done"
    /\ question = <<" ", " ">>
    /\ max_retries = MaxRetries
    /\ client.kind = "mock"
    /\ result = <<>>
    /\ calls = <<>>

\* ----------------------------------------------------------------------- C2
\* C2: when the first call's answer is coherent, that call is the only one
\* ever issued, and once the answer is observed ask_zai has returned it
\* trimmed, whatever max_retries is.
C2_CoherentFirstCall ==
    (calls # <<>> /\ Coherent(calls[1])) =>
        /\ Len(calls) = 1
        /\ pending = <<>>
        /\ response = NoResponse =>
              /\ pc = "done"
              /\ result = strip(calls[1].text)
              /\ raised = NoExc

C2_Witness ==
    /\ pc = "done"
    /\ max_retries = MaxRetries
    /\ Len(calls) = 1
    /\ calls[1].text = <<" ", "a", " ">>
    /\ result = <<"a">>

\* ----------------------------------------------------------------------- C3
\* C3: with a client whose every answer is incoherent, ask_zai on a non-blank
\* question ends by returning, after exactly 3 * max_retries + 1 calls, the
\* last answer trimmed, in the Exhausted state, and raises nothing.
C3_AlwaysIncoherent ==
    (/\ NonBlank
     /\ pc \in {"done", "raised"}
     /\ \A i \in DOMAIN calls : Incoherent(calls[i])) =>
        /\ pc = "done"
        /\ raised = NoExc
        /\ Len(calls) = 3 * max_retries + 1
        /\ ~is_final_answer_coherent
        /\ result = strip(LastCall.text)

\* the same law once the prompts are loaded: what is left of C3 when
\* load_prompts does not raise
ExhaustedAfterAllCalls ==
    (/\ NonBlank
     /\ pc \in {"done", "raised"}
     /\ ~LoadFailed
     /\ \A i \in DOMAIN calls : Incoherent(calls[i])) =>
        /\ pc = "done"
        /\ raised = NoExc
        /\ Len(calls) = 3 * max_retries + 1
        /\ ~is_final_answer_coherent
        /\ result = strip(LastCall.text)

\* ----------------------------------------------------------------------- C4
\* the client of C4: it answers every call, coherently on every critique and
\* improve call, incoherently on its first k answers at InitialRequest and
\* coherently on the later ones, with k <= max_retries
InitialCalls == {i \in DOMAIN calls : calls[i].kind = "initial"}

IncoherentInitial == {i \in InitialCalls : Incoherent(calls[i])}

C4_Client ==
    /\ \A i \in DOMAIN calls : Answered(calls[i])
    /\ \A i \in DOMAIN calls : calls[i].kind # "initial" => Coherent(calls[i])
    /\ \A i \in InitialCalls : \A j \in InitialCalls :
          (i < j /\ Coherent(calls[i])) => Coherent(calls[j])
    /\ Cardinality(IncoherentInitial) <= max_retries

C5_Claimed ==
    \A n \in 1..(Len(calls) - 1) :
        /\ IsPrefix(calls[n].messages, calls[n + 1].messages)
        /\ Len(calls[n + 1].messages) > Len(calls[n].messages)

\* C5 as amended: the conversation of every call is a prefix of the
\* conversation of the next call; it is longer by exactly two messages,
\* except from an improve call to the next attempt's InitialRequest, which is
\* sent the very same conversation.
C5_PrefixGrowth ==
    \A n \in 1..(Len(calls) - 1) :
        /\ IsPrefix(calls[n].messages, calls[n + 1].messages)
        /\ IF calls[n].kind = "improve"
           THEN /\ calls[n + 1].kind = "initial"
                /\ calls[n + 1].messages = calls[n].messages
           ELSE Len(calls[n + 1].messages) = Len(calls[n].messages) + 2

C5_Witness ==
    /\ Len(calls) >= 5
    /\ calls[3].kind = "improve"
    /\ calls[4].kind = "initial"
    /\ calls[4].messages = calls[3].messages
    /\ calls[5].kind = "critique"
    /\ Len(calls[5].messages) = Len(calls[4].messages) + 2

\* ----------------------------------------------------------------------- C6
\* the client of C6: incoherent on its first k answers, coherent afterwards,
\* with k <= max_retries
IncoherentAnswers == {i \in DOMAIN calls : Incoherent(calls[i])}

C6_Client ==
    /\ \A i \in DOMAIN calls : Answered(calls[i])
    /\ \A i \in DOMAIN calls : \A j \in DOMAIN calls :
          (i < j /\ Coherent(calls[i])) => Coherent(calls[j])
    /\ Cardinality(IncoherentAnswers) <= max_retries

\* C6: a retry costs one call, sent the previous conversation extended by
\* assistant(bad answer), user(reprompt); a client incoherent on its first k
\* answers is called k + 1 times.
C6_OneCallPerRetry ==
    (NonBlank /\ pc = "done" /\ C6_Client) =>
        /\ Len(calls) = Cardinality(IncoherentAnswers) + 1
        /\ \A n \in 1..(Len(calls) - 1) :
              calls[n + 1].messages =
                  calls[n].messages \o <<Message("assistant", calls[n].text),
                                         Message("user", prompts.reprompt)>>

\* ----------------------------------------------------------------------- C7
\* C7: when ask_zai has returned for a non-blank question, coherent or
\* exhausted, the result is the text of the last call issued, stripped of
\* leading and trailing whitespace, and that call is not a critique call.
C7_ReturnsLastAnswerTrimmed ==
    (NonBlank /\ pc = "done") =>
        /\ calls # <<>>
        /\ Answered(LastCall)
        /\ LastCall.kind # "critique"
        /\ result = strip(LastCall.text)
        /\ result = <<>> \/ (Head(result) \notin Whitespace
                             /\ result[Len(result)] \notin Whitespace)

C7_Witness ==
    /\ pc = "done"
    /\ ~is_final_answer_coherent
    /\ max_retries = MaxRetries
    /\ Len(calls) = 3 * MaxRetries + 1
    /\ LastCall.text = <<"a", ".", ".", ".", " ">>
    /\ result = <<"a", ".", ".", ".">>
    /\ critique = <<" ", "a", " ">>

\* ----------------------------------------------------------------------- C8
\* C8: a client call that raises is the last call of the invocation, and
\* once ask_zai has observed it, ask_zai has ended with that same exception
\* and without a result.
C8_FailurePropagates ==
    \A i \in DOMAIN calls :
        Failed(calls[i]) =>
            /\ i = Len(calls)
            /\ pending = <<>>
            /\ result = NoResult
            /\ IF response = NoResponse
               THEN pc = "raised" /\ raised = calls[i].exc
               ELSE /\ pc \in {"await_initial", "await_critique", "await_improve"}
                    /\ response.exc = calls[i].exc

C8_Witness ==
    /\ pc = "raised"
    /\ raised = "ServerError"
    /\ Len(calls) = 5
    /\ LastCall.kind = "critique"
    /\ LastCall.exc = "ServerError"
    /\ result = NoResult

\* ----------------------------------------------------------------------- C9
\* C9: load_prompts returns a PromptSet in every state of the configuration
\* source, so ask_zai never ends with an exception of load_prompts.
C9_LoadNeverRaises == loads > 0 => ~LoadFailed

\* ---------------------------------------------------------------------- C10
\* C10: every key of a PromptSet that load_prompts returned is a non-empty
\* string.
C10_PromptsNonEmpty ==
    (loads > 0 /\ ~LoadFailed) =>
        \A k \in Keys : prompts[k] \notin {Missing, None, <<>>}

\* ---------------------------------------------------------------------- C11
\* is_coherent called on its own, on every text of at most MaxLen characters
\* over a letter, the dot and the blank, up to MaxChecks times in a row
MaxLen == 4

MaxChecks == 2

Alphabet == {"a", ".", " "}

Texts == UNION {[1..n -> Alphabet] : n \in 0..MaxLen}

\* ask_zai is not running
Idle ==
    /\ config = [file |-> "absent", doc |-> "none", section |-> "absent",
                 prompts |-> AllMissing]
    /\ client = [kind |-> "script", incoherent_attempts |-> 0,
                 always_incoherent |-> FALSE]
    /\ call_counts = <<>>
    /\ pc = "idle"
    /\ question = <<>>
    /\ max_retries = 0
    /\ prompts = AllMissing
    /\ messages = <<>>
    /\ answer = <<>>
    /\ critique = <<>>
    /\ attempt = 0
    /\ is_final_answer_coherent = FALSE
    /\ pending = <<>>
    /\ response = NoResponse
    /\ calls = <<>>
    /\ result = NoResult
    /\ raised = NoExc
    /\ loads = 0
    /\ lists = <<>>
    /\ touched = {}

ask_vars ==
    <<config, client, call_counts, pc, question, max_retries, prompts, messages,
      answer, critique, attempt, is_final_answer_coherent, pending, response,
      calls, result, raised, loads, lists, touched>>

InitCoherent ==
    /\ Idle
    /\ checked \in Texts
    /\ verdicts = <<>>
    /\ inv = <<>>

\* one call of is_coherent(checked)
is_coherent_call ==
    /\ Len(verdicts) < MaxChecks
    /\ verdicts' = Append(verdicts, is_coherent(checked))
    /\ UNCHANGED <<checked, inv>>
    /\ UNCHANGED ask_vars

NextCoherent == is_coherent_call

SpecCoherent == InitCoherent /\ [][NextCoherent]_vars

\* the rule of the specification, stated on positions: the text is not
\* empty, and the three characters that end at its last non-blank character
\* are not three dots
NonBlankAt(t) == {i \in DOMAIN t : t[i] \notin Whitespace}

LastNonBlank(t) == CHOOSE i \in NonBlankAt(t) : \A j \in NonBlankAt(t) : j <= i

ReferenceCoherent(t) ==
    /\ Len(t) > 0
    /\ NonBlankAt(t) # {} =>
          LET j == LastNonBlank(t) IN
          ~(j >= 3 /\ t[j] = "." /\ t[j - 1] = "." /\ t[j - 2] = ".")

\* C11: every verdict of is_coherent on a text equals the reference rule:
\* false on the empty text, false when the stripped text ends with "...",
\* true otherwise; a second call on the same text gives the same verdict.
C11_IsCoherentRule ==
    /\ \A i \in DOMAIN verdicts : verdicts[i] = ReferenceCoherent(checked)
    /\ \A i \in DOMAIN verdicts : \A j \in DOMAIN verdicts : verdicts[i] = verdicts[j]
    /\ checked = <<>> => \A i \in DOMAIN verdicts : ~verdicts[i]
    /\ (checked # <<>> /\ AllWhitespace(checked)) =>
          \A i \in DOMAIN verdicts : verdicts[i]

C11_Witness ==
    /\ checked = <<".", ".", ".", " ">>
    /\ verdicts = <<FALSE, FALSE>>

\* ---------------------------------------------------------------------- C12
\* the conversation, once built, starts with system(system_prompt),
\* user(question), and it exists as soon as a call was issued or ask_zai
\* returned for a non-blank question
ConversationStart ==
    /\ (calls # <<>> \/ (NonBlank /\ pc = "done")) => messages # <<>>
    /\ messages # <<>> =>
          /\ NonBlank
          /\ Len(messages) >= 2
          /\ messages[1] = Message("system", prompts.system_prompt)
          /\ messages[2] = Message("user", question)

\* C12: in every state of an invocation on a non-blank question the
\* conversation starts with a system message followed by user(question), and
\* every step leaves the conversation as it is or appends to it: what is in
\* it is never removed, reordered or changed.
C12_AppendOnly ==
    /\ []ConversationStart
    /\ [][IsPrefix(messages, messages')]_vars

C12_Witness ==
    /\ pc = "await_improve"
    /\ question = <<" ", "q">>
    /\ Len(messages) = 6
    /\ messages[1].role = "system"
    /\ messages[2] = Message("user", <<" ", "q">>)
    /\ messages[5].role = "assistant"

\* ---------------------------------------------------------------------- C13
\* two ask_zai coroutines on one event loop, one client and one config.yaml.
\* inv.local[i] holds the locals of invocation i, inv.conv the message
\* lists; a step of a coroutine runs from one await to the next.
Invocations == {1, 2}

\* the largest max_retries a caller passes where runs are multiplied by
\* interleavings or by the client's changes to its lists
MaxRetriesSmall == 1

ConcQuestions == {<<"q">>, <<"p">>}

\* one coherent and one incoherent answer, both with whitespace to strip
ConcAnswers == {<<" ", "a", " ">>, <<"a", ".", ".", ".", " ">>}

\* file absent, empty document, all four keys supplied
ConcConfigs ==
    {c \in AskConfigs :
        \/ c.file = "absent"
        \/ c.file = "ok" /\ c.doc = "none"
        \/ c.file = "ok" /\ c.section = "map" /\ c.prompts = [k \in Keys |-> <<"x">>]}

\* mutant: messages is one module-level list
conversation_shared(i) == 0

\* where invocation i keeps its conversation: messages is a local of the
\* call (line 125)
conversation_of(i) == i

Local0 ==
    [pc |-> "idle", question |-> <<>>, max_retries |-> 0, prompts |-> AllMissing,
     answer |-> <<>>, critique |-> <<>>, attempt |-> 0,
     is_final_answer_coherent |-> FALSE, response |-> NoResponse, calls |-> <<>>,
     result |-> NoResult, raised |-> NoExc]

\* the locals l and the conversation m after a call is issued
issued(l, kind, a, msgs) ==
    [l |-> [l EXCEPT !.pc = CASE kind = "initial" -> "await_initial"
                             [] kind = "critique" -> "await_critique"
                             [] OTHER -> "await_improve",
                     !.attempt = a,
                     !.calls = Append(@, [kind |-> kind, attempt |-> a,
                                          messages |-> copy(msgs),
                                          exc |-> "pending", text |-> <<>>])],
     m |-> msgs]

\* ask_zai(q, client, r) up to its first await; m is what the place of its
\* conversation held before
entered(q, r, cfg, m) ==
    LET l == [Local0 EXCEPT !.question = q, !.max_retries = r] IN
    IF is_blank(q)
    THEN [l |-> [l EXCEPT !.pc = "done", !.result = <<>>], m |-> m]
    ELSE LET loaded == load_prompts(cfg) IN
         IF loaded.exc # NoExc
         THEN [l |-> [l EXCEPT !.pc = "raised", !.raised = loaded.exc], m |-> m]
         ELSE issued([l EXCEPT !.prompts = loaded.value], "initial", 0,
                     start(loaded.value.system_prompt, q))

\* ask_zai from the await that l.response ends to the next await or the end
resumed(l, m) ==
    LET text == l.response.text
        seen == [l EXCEPT !.response = NoResponse]
        done(x) == [l |-> [x EXCEPT !.pc = "done", !.result = returned(text)], m |-> m]
    IN
    IF l.response.exc # NoExc
    THEN [l |-> [seen EXCEPT !.pc = "raised", !.raised = l.response.exc], m |-> m]
    ELSE CASE l.pc = "await_initial" ->
                LET branch == after_initial(text, l.attempt, l.max_retries)
                    got == [seen EXCEPT !.answer = text]
                IN  CASE branch = "break" ->
                            done([got EXCEPT !.is_final_answer_coherent = TRUE])
                      [] branch = "self_correct" ->
                            issued(got, "critique", l.attempt,
                                   append_correction(m, text, l.prompts.critique_prompt))
                      [] OTHER -> done(got)
           [] l.pc = "await_critique" ->
                issued([seen EXCEPT !.critique = text], "improve", l.attempt,
                       append_correction(m, text, l.prompts.improve_prompt))
           [] OTHER ->
                LET got == [seen EXCEPT !.answer = text] IN
                IF after_improve(judged(text, l.critique)) = "break"
                THEN done([got EXCEPT !.is_final_answer_coherent = TRUE])
                ELSE issued(got, "initial", l.attempt + 1, m)

\* the conversation of invocation i
ConvOf(i) == inv.conv[conversation_of(i)]

InFlight(l) == l.calls # <<>> /\ l.calls[Len(l.calls)].exc = "pending"

\* nothing runs yet; the configuration and the client are any
InitConcurrent ==
    /\ \E c \in ConcConfigs, cl \in Clients :
          /\ config = c
          /\ client = cl
    /\ call_counts = <<>>
    /\ pc = "idle"
    /\ question = <<>>
    /\ max_retries = 0
    /\ prompts = AllMissing
    /\ messages = <<>>
    /\ answer = <<>>
    /\ critique = <<>>
    /\ attempt = 0
    /\ is_final_answer_coherent = FALSE
    /\ pending = <<>>
    /\ response = NoResponse
    /\ calls = <<>>
    /\ result = NoResult
    /\ raised = NoExc
    /\ loads = 0
    /\ lists = <<>>
    /\ touched = {}
    /\ checked = <<>>
    /\ verdicts = <<>>
    /\ inv = [local |-> [i \in Invocations |-> Local0],
              conv  |-> [k \in Invocations \cup {0} |-> <<>>]]

solo_vars ==
    <<config, client, pc, question, max_retries, prompts, messages, answer,
      critique, attempt, is_final_answer_coherent, pending, response, calls,
      result, raised, loads, lists, touched, checked, verdicts>>

\* the event loop starts invocation i
conc_ask_zai(i) ==
    /\ inv.local[i].pc = "idle"
    /\ \E q \in ConcQuestions, r \in 0..MaxRetriesSmall :
          LET e == entered(q, r, config, ConvOf(i)) IN
          inv' = [local |-> [inv.local EXCEPT ![i] = e.l],
                  conv  |-> [inv.conv EXCEPT ![conversation_of(i)] = e.m]]
    /\ UNCHANGED call_counts
    /\ UNCHANGED solo_vars

\* the reply to the call of invocation i that is in flight
replied(i, exc, text) ==
    inv' = [inv EXCEPT
              !.local[i].response = [exc |-> exc, text |-> text],
              !.local[i].calls[Len(inv.local[i].calls)].exc = exc,
              !.local[i].calls[Len(inv.local[i].calls)].text = text]

\* MockCompletions.create_async completes for invocation i
conc_mock_create_async(i) ==
    /\ InFlight(inv.local[i])
    /\ client.kind = "mock"
    /\ LET l == inv.local[i]
           r == create_async(client, call_counts, l.calls[Len(l.calls)].messages)
       IN  /\ replied(i, r.exc, r.text)
           /\ call_counts' = r.counts
    /\ UNCHANGED solo_vars

\* a scripted client answers invocation i, or raises
conc_script_create_async(i) ==
    /\ InFlight(inv.local[i])
    /\ client.kind = "script"
    /\ \/ \E t \in ConcAnswers : replied(i, NoExc, t)
       \/ replied(i, "ServerError", <<>>)
    /\ UNCHANGED call_counts
    /\ UNCHANGED solo_vars

\* the event loop resumes invocation i with the reply it awaited
conc_resume(i) ==
    /\ inv.local[i].response # NoResponse
    /\ LET e == resumed(inv.local[i], ConvOf(i)) IN
       inv' = [local |-> [inv.local EXCEPT ![i] = e.l],
               conv  |-> [inv.conv EXCEPT ![conversation_of(i)] = e.m]]
    /\ UNCHANGED call_counts
    /\ UNCHANGED solo_vars

NextConcurrent ==
    \E i \in Invocations :
        \/ conc_ask_zai(i)
        \/ conc_mock_create_async(i)
        \/ conc_script_create_async(i)
        \/ conc_resume(i)

SpecConcurrent == InitConcurrent /\ [][NextConcurrent]_vars

\* the conversation that the k-th call of a run must carry when the run is
\* alone: system prompt, own question, then per correction step the own
\* reply and the prompt of that step
RECURSIVE OwnConversation(_, _)
OwnConversation(l, k) ==
    IF k = 1
    THEN <<Message("system", l.prompts.system_prompt), Message("user", l.question)>>
    ELSE LET prev == l.calls[k - 1] IN
         CASE prev.kind = "initial" ->
                OwnConversation(l, k - 1) \o
                    <<Message("assistant", prev.text),
                      Message("user", l.prompts.critique_prompt)>>
           [] prev.kind = "critique" ->
                OwnConversation(l, k - 1) \o
                    <<Message("assistant", prev.text),
                      Message("user", l.prompts.improve_prompt)>>
           [] OTHER -> OwnConversation(l, k - 1)

\* what a run with locals l and conversation m looks like when its question,
\* its budget, the prompts and the replies it received determine it alone
OwnRun(l, m) ==
    LET c == l.calls
        n == Len(c)
    IN
    /\ c = <<>> =>
          /\ l.response = NoResponse
          /\ \/ l.pc = "idle"
             \/ l.pc = "done" /\ l.result = <<>> /\ AllWhitespace(l.question)
             \/ l.pc = "raised" /\ l.raised # NoExc /\ l.result = NoResult
    /\ c # <<>> =>
          /\ l.prompts = load_prompts(config).value
          /\ c[1].kind = "initial"
          /\ c[1].attempt = 0
          /\ m = c[n].messages
          /\ \A k \in 1..n : c[k].messages = OwnConversation(l, k)
          /\ \A k \in 1..(n - 1) :
                /\ c[k].exc = NoExc
                /\ c[k + 1].attempt = c[k].attempt + (IF c[k].kind = "improve" THEN 1 ELSE 0)
                /\ c[k].kind = "initial" =>
                      /\ ~is_coherent(c[k].text)
                      /\ c[k].attempt < l.max_retries
                      /\ c[k + 1].kind = "critique"
                /\ c[k].kind = "critique" => c[k + 1].kind = "improve"
                /\ c[k].kind = "improve" =>
                      /\ ~is_coherent(c[k].text)
                      /\ c[k + 1].kind = "initial"
          /\ l.pc \in {"await_initial", "await_critique", "await_improve"} =>
                /\ l.pc = (CASE c[n].kind = "initial" -> "await_initial"
                             [] c[n].kind = "critique" -> "await_critique"
                             [] OTHER -> "await_improve")
                /\ l.result = NoResult
                /\ l.raised = NoExc
                /\ \/ c[n].exc = "pending" /\ l.response = NoResponse
                   \/ l.response = [exc |-> c[n].exc, text |-> c[n].text]
          /\ l.pc = "raised" =>
                /\ c[n].exc \notin {NoExc, "pending"}
                /\ l.raised = c[n].exc
                /\ l.result = NoResult
                /\ l.response = NoResponse
          /\ l.pc = "done" =>
                /\ c[n].exc = NoExc
                /\ l.response = NoResponse
                /\ l.result = strip(c[n].text)
                /\ l.is_final_answer_coherent = is_coherent(c[n].text)
                /\ c[n].kind # "critique"
                /\ c[n].kind = "initial" =>
                      is_coherent(c[n].text) \/ c[n].attempt = l.max_retries
                /\ c[n].kind = "improve" => is_coherent(c[n].text)
          /\ l.pc # "idle"

\* the single invocation of Spec, as the locals of a run
SoloLocal ==
    [pc |-> pc, question |-> question, max_retries |-> max_retries,
     prompts |-> prompts, answer |-> answer, critique |-> critique,
     attempt |-> attempt, is_final_answer_coherent |-> is_final_answer_coherent,
     response |-> response, calls |-> calls, result |-> result, raised |-> raised]

\* lemma (Spec): an invocation that runs alone is an OwnRun
SoloIsOwnRun == OwnRun(SoloLocal, messages)

\* C13: with two ask_zai invocations interleaved at their awaits on one
\* client, every invocation is at every moment the run that its own question,
\* its own budget and the replies its own calls received determine when it
\* runs alone: its conversation and every list it sent hold only its own
\* question, the prompts and its own answers, and its calls and its result
\* follow from its own replies.
C13_Isolation == \A i \in Invocations : OwnRun(inv.local[i], ConvOf(i))

\* both invocations are inside a correction round at once, for different
\* questions, each with a call in flight
C13_Witness ==
    /\ inv.local[1].pc = "await_critique"
    /\ inv.local[2].pc = "await_improve"
    /\ InFlight(inv.local[1])
    /\ InFlight(inv.local[2])
    /\ inv.local[1].question # inv.local[2].question

\* both invocations ask the same question of the one mock and have returned:
\* the shared per-question counter gave the second a different reply
C13_SharedCounter ==
    /\ client.kind = "mock"
    /\ inv.local[1].pc = "done"
    /\ inv.local[2].pc = "done"
    /\ inv.local[1].question = inv.local[2].question
    /\ inv.local[1].max_retries = inv.local[2].max_retries
    /\ inv.local[1].result # inv.local[2].result

\* ---------------------------------------------------------------------- C14
\* the legacy single-retry ask_zai and its mock (src/coherence_example.py)

\* DEFAULT_SYSTEM_PROMPT
DEFAULT_SYSTEM_PROMPT == Message("system", <<"S">>)

\* the legacy MockZAIClient takes no options; the scripted double is any
\* client answering what it likes
LegacyClients ==
    {[kind |-> "script", incoherent_attempts |-> 0, always_incoherent |-> FALSE],
     [kind |-> "legacy_mock", incoherent_attempts |-> 0, always_incoherent |-> FALSE]}

\* the legacy function does not test for blank: empty, whitespace, plain,
\* one that holds "reformule", one that holds a quote
LegacyQuestions == {<<>>, <<" ">>, <<"q">>, <<"r", "q">>, <<"q", "'", "q">>}

\* t[a..b]
slice(t, a, b) == [i \in 1..(b - a + 1) |-> t[a + i - 1]]

\* s occurs in t as a substring
Infix(s, t) == \E i \in 0..(Len(t) - Len(s)) : slice(t, i + 1, i + Len(s)) = s

\* re.search(r"pergunta '(.*?)'", user_content): "p" is the word "pergunta "
Matches(t) ==
    {i \in DOMAIN t :
        /\ t[i] = "p"
        /\ i + 1 <= Len(t)
        /\ t[i + 1] = "'"
        /\ \E j \in (i + 2)..Len(t) : t[j] = "'"}

\* match.group(1) if match else user_content
legacy_question_key(user_content) ==
    IF Matches(user_content) = {}
    THEN user_content
    ELSE LET i == CHOOSE x \in Matches(user_content) :
                     \A y \in Matches(user_content) : x <= y
             j == CHOOSE x \in (i + 2)..Len(user_content) :
                     /\ user_content[x] = "'"
                     /\ \A y \in (i + 2)..(x - 1) : user_content[y] # "'"
         IN  slice(user_content, i + 2, j - 1)

\* the legacy MockCompletions.create_async(messages)
legacy_create_async(counts, msgs) ==
    LET user_content == msgs[Len(msgs)].content
        question_key == legacy_question_key(user_content)
        count        == get_count(counts, question_key) + 1
        counted      == [k \in DOMAIN counts \cup {question_key} |->
                            IF k = question_key THEN count ELSE counts[k]]
        first_call   == 1
    IN  IF contains(lower(user_content), "r")
        THEN [exc |-> NoExc, text |-> ImproveReply(question_key), counts |-> counted]
        ELSE IF count = first_call
        THEN [exc |-> NoExc, text |-> IncoherentReply, counts |-> counted]
        ELSE [exc |-> NoExc, text |-> CoherentReply(question_key), counts |-> counted]

\* mutant: the re-prompt does not quote the question
correction_prompt_no_question(q, a) ==
    <<"s", "p", "f", "'">> \o a \o <<"'", ".", "i", "r">>

\* f"Sua resposta anterior para a pergunta '{question}' foi: '{answer}'. "
\* "Esta resposta esta incompleta ou contraditoria. Por favor, reformule ..."
correction_prompt(q, a) ==
    <<"s", "p", "'">> \o q \o <<"'", "f", "'">> \o a \o <<"'", ".", "i", "r">>

InitLegacy ==
    /\ config = CHOOSE c \in AskConfigs : c.file = "absent"
    /\ \E cl \in LegacyClients : client = cl
    /\ call_counts = <<>>
    /\ pc = "idle"
    /\ question = <<>>
    /\ max_retries = 0
    /\ prompts = AllMissing
    /\ messages = <<>>
    /\ answer = <<>>
    /\ critique = <<>>
    /\ attempt = 0
    /\ is_final_answer_coherent = FALSE
    /\ pending = <<>>
    /\ response = NoResponse
    /\ calls = <<>>
    /\ result = NoResult
    /\ raised = NoExc
    /\ loads = 0
    /\ lists = <<>>
    /\ touched = {}
    /\ checked = <<>>
    /\ verdicts = <<>>
    /\ inv = <<>>

\* what the legacy function never touches
legacy_rest ==
    <<config, client, max_retries, prompts, critique, attempt,
      is_final_answer_coherent, loads, touched, checked, verdicts, inv>>

\* create_async(messages=msgs): the list itself is handed over
legacy_issue(kind, msgs) ==
    /\ pending' = msgs
    /\ response' = NoResponse
    /\ calls' = Append(calls, [kind |-> kind, attempt |-> 0, messages |-> msgs,
                               exc |-> "pending", text |-> <<>>])
    /\ lists' = Append(lists, msgs)

\* legacy ask_zai(question, client) up to its first await: lines 83-86
legacy_ask_zai ==
    /\ pc = "idle"
    /\ \E q \in LegacyQuestions :
          /\ question' = q
          /\ messages' = <<DEFAULT_SYSTEM_PROMPT, Message("user", q)>>
          /\ legacy_issue("initial", <<DEFAULT_SYSTEM_PROMPT, Message("user", q)>>)
    /\ pc' = "await_initial"
    /\ UNCHANGED <<call_counts, answer, result, raised>>
    /\ UNCHANGED legacy_rest

\* the legacy mock completes a call
legacy_mock_create_async ==
    /\ pending # <<>>
    /\ client.kind = "legacy_mock"
    /\ LET r == legacy_create_async(call_counts, pending) IN
          /\ Reply(r.exc, r.text)
          /\ call_counts' = r.counts
    /\ UNCHANGED <<pc, question, messages, answer, result, raised>>
    /\ UNCHANGED legacy_rest

\* the first call returns: lines 87-101
legacy_resume_initial ==
    /\ pc = "await_initial"
    /\ response # NoResponse
    /\ IF response.exc # NoExc
       THEN /\ pc' = "raised"
            /\ raised' = response.exc
            /\ response' = NoResponse
            /\ UNCHANGED <<answer, pending, calls, result, lists>>
       ELSE /\ answer' = response.text
            /\ raised' = raised
            /\ IF ~is_coherent(response.text)
               THEN /\ legacy_issue("correction",
                          <<DEFAULT_SYSTEM_PROMPT,
                            Message("user", correction_prompt(question, response.text))>>)
                    /\ pc' = "await_correction"
                    /\ result' = result
               ELSE /\ pc' = "done"
                    /\ result' = returned(response.text)
                    /\ response' = NoResponse
                    /\ UNCHANGED <<pending, calls, lists>>
    /\ UNCHANGED <<call_counts, question, messages>>
    /\ UNCHANGED legacy_rest

\* the second call returns: lines 102-107
legacy_resume_correction ==
    /\ pc = "await_correction"
    /\ response # NoResponse
    /\ IF response.exc # NoExc
       THEN /\ pc' = "raised"
            /\ raised' = response.exc
            /\ UNCHANGED <<answer, result>>
       ELSE /\ answer' = response.text
            /\ pc' = "done"
            /\ result' = returned(response.text)
            /\ raised' = raised
    /\ response' = NoResponse
    /\ UNCHANGED <<call_counts, question, messages, pending, calls, lists>>
    /\ UNCHANGED legacy_rest

NextLegacy ==
    \/ legacy_ask_zai
    \/ legacy_mock_create_async
    \/ script_create_async
    \/ script_raise
    \/ legacy_resume_initial
    \/ legacy_resume_correction

SpecLegacy == InitLegacy /\ [][NextLegacy]_vars

last(msgs) == msgs[Len(msgs)]

\* the first answer was received and is incoherent
LegacyIncoherentFirst ==
    /\ calls # <<>>
    /\ calls[1].exc = NoExc
    /\ ~is_coherent(calls[1].text)

\* the calls of the legacy function
LegacyCalls ==
    /\ Len(calls) <= 2
    /\ calls # <<>> => last(calls[1].messages) = Message("user", question)
    /\ Len(calls) = 2 => LegacyIncoherentFirst
    /\ (LegacyIncoherentFirst /\ pc # "await_initial") =>
          /\ Len(calls) = 2
          /\ last(calls[2].messages).role = "user"
          /\ contains(last(calls[2].messages).content, "r")
          /\ Infix(question, last(calls[2].messages).content)
          /\ pc # "done" => result = NoResult

\* C14 as stated: the second call's answer itself is returned
C14_Claimed ==
    /\ LegacyCalls
    /\ (LegacyIncoherentFirst /\ pc = "done") => result = calls[2].text

\* C14 (amended): in the legacy ask_zai an incoherent first answer triggers
\* exactly one re-prompt, so two client calls in total: the first call's last
\* message is the question, the second's holds "reformule" and the question,
\* and what is returned is the second call's answer stripped of surrounding
\* whitespace.
C14_LegacyRetry ==
    /\ LegacyCalls
    /\ (LegacyIncoherentFirst /\ pc = "done") => result = strip(calls[2].text)

\* the re-prompt was answered with surrounding whitespace and the function
\* has returned
C14_Witness ==
    /\ pc = "done"
    /\ LegacyIncoherentFirst
    /\ Len(calls) = 2
    /\ question = <<"q">>
    /\ calls[2].text = <<" ", "a", " ">>
    /\ result = <<"a">>

\* the same with the repository's legacy mock, whose answers carry no
\* surrounding whitespace
C14_MockRun ==
    /\ client.kind = "legacy_mock"
    /\ pc = "done"
    /\ Len(calls) = 2
    /\ result = calls[2].text
    /\ result = ImproveReply(question)

\* ---------------------------------------------------------------------- C15
\* ask_zai has taken the reply of call n (it resumed after the await)
Observed(n) ==
    /\ n \in DOMAIN calls
    /\ calls[n].exc # "pending"
    /\ n = Len(calls) => response = NoResponse

C16_LastAttemptEnds ==
    /\ \A n \in DOMAIN calls :
          (/\ calls[n].kind = "initial"
           /\ Incoherent(calls[n])
           /\ calls[n].attempt = max_retries) =>
              /\ n = Len(calls)
              /\ messages = calls[n].messages
              /\ Observed(n) =>
                    /\ pc = "done"
                    /\ answer = calls[n].text
                    /\ result = strip(calls[n].text)
                    /\ ~is_final_answer_coherent
    /\ (max_retries = 0 /\ calls # <<>>) =>
          /\ Len(calls) = 1
          /\ (Answered(calls[1]) /\ Observed(1)) => (pc = "done" /\ result = strip(calls[1].text))

\* the budget of two retries is used up and the third InitialRequest was
\* answered incoherently: ask_zai has returned after 7 calls
C16_Witness ==
    /\ pc = "done"
    /\ calls # <<>>
    /\ max_retries = MaxRetries
    /\ LastCall.kind = "initial"
    /\ LastCall.attempt = max_retries
    /\ Incoherent(LastCall)
    /\ Len(calls) = 3 * max_retries + 1
    /\ Len(messages) = 4 * max_retries + 2

\* the same with no retry: one incoherent answer, returned as it is
C16_NoRetry ==
    /\ pc = "done"
    /\ max_retries = 0
    /\ Len(calls) = 1
    /\ Incoherent(calls[1])
    /\ result # <<>>

\* ---------------------------------------------------------------------- C17
\* the call-count law of a finished invocation
CallBudget ==
    /\ pc = "done"
    /\ Len(calls) >= 1
    /\ Len(calls) <= 3 * max_retries + 1
    /\ Len(calls) = 3 * max_retries + 1 =>
          \A n \in 1..(Len(calls) - 1) :
              calls[n].kind \in {"initial", "improve"} => Incoherent(calls[n])

\* ask_zai is over and the client answered every call it got
AnsweredRun ==
    /\ NonBlank
    /\ pc \in {"done", "raised"}
    /\ \A n \in DOMAIN calls : Answered(calls[n])

\* C17: for every client that answers every call and every max_retries = r,
\* ask_zai on a non-blank question ends by returning, having issued at least
\* 1 and at most 3r + 1 calls, and 3r + 1 only when no answer observed at an
\* InitialRequest or improve step before the last InitialRequest was
\* coherent.
C17_CallBudget == AnsweredRun => CallBudget

\* lemma: the law holds whenever load_prompts returned
CallBudgetWhenLoaded == (AnsweredRun /\ ~LoadFailed) => CallBudget

\* lemma: an invocation never issues more than 3r + 1 calls
CallsBounded == Len(calls) <= 3 * max_retries + 1

\* ---------------------------------------------------------------------- C18
\* the calls whose reply the client has not produced yet
Outstanding == {n \in DOMAIN calls : calls[n].exc = "pending"}

Terminal == pc \in {"done", "raised"}

\* at most one call is outstanding, it is the last one, and a finished
\* invocation has none
OneOutstanding ==
    /\ Cardinality(Outstanding) <= 1
    /\ Outstanding \subseteq {Len(calls)}
    /\ (pending # <<>>) = (Outstanding # {})
    /\ pending # <<>> => response = NoResponse
    /\ Terminal => (Outstanding = {} /\ pending = <<>> /\ response = NoResponse)

\* a step that issues a call issues one, and after the first only in the
\* step that observes the answer of the previous one
IssuedAfterObserved ==
    Len(calls') # Len(calls) =>
        /\ Len(calls') = Len(calls) + 1
        /\ calls'[Len(calls')].exc = "pending"
        /\ pending' = calls'[Len(calls')].messages
        /\ calls # <<>> =>
              /\ Answered(LastCall)
              /\ response = [exc |-> LastCall.exc, text |-> LastCall.text]
              /\ response' = NoResponse

\* while a call is pending ask_zai does not move: it neither issues a call,
\* nor changes its conversation, nor ends
BlockedWhilePending ==
    pending # <<>> =>
        /\ pc' = pc
        /\ messages' = messages
        /\ Len(calls') = Len(calls)
        /\ result' = result
        /\ raised' = raised
        /\ answer' = answer

\* C18: within one ask_zai invocation at most one client call is outstanding
\* at any time; a call is issued only after the result of the previous call
\* has been observed; a terminal state is reached only when no call is
\* pending, and as long as a call stays pending the invocation stays where
\* it is and does not return.
C18_Sequential ==
    /\ []OneOutstanding
    /\ [][IssuedAfterObserved]_vars
    /\ [][BlockedWhilePending]_vars

\* the improve call of the second round is outstanding, the five earlier
\* calls are all answered
C18_Witness ==
    /\ pc = "await_improve"
    /\ Len(calls) = 6
    /\ Outstanding = {6}
    /\ pending = calls[6].messages
    /\ result = NoResult

\* ---------------------------------------------------------------------- C19
\* a client that changes the list it was handed. Object 0 is the
\* conversation (messages), object n the list made by messages.copy() for
\* call n (lists[n]); handle(n) is the object call n received.

\* what the object handed to call n holds now
View(n) == IF handle(n) = 0 THEN messages ELSE lists[handle(n)]

\* the client's changes: it appends a message of its own, or removes the
\* last message
ClientEdits(l) ==
    {Append(l, Message("tool", <<"j">>))} \cup
    (IF l = <<>> THEN {} ELSE {SubSeq(l, 1, Len(l) - 1)})

\* the scripted client changes the list of the call it is serving; one call
\* of a run is treated so
client_mutates ==
    /\ pending # <<>>
    /\ client.kind = "script"
    /\ touched = {}
    /\ touched' = {Len(calls)}
    /\ \E l \in ClientEdits(View(Len(calls))) :
          IF handle(Len(calls)) = 0
          THEN /\ messages' = l
               /\ lists' = lists
          ELSE /\ lists' = [lists EXCEPT ![handle(Len(calls))] = l]
               /\ messages' = messages
    /\ UNCHANGED <<config, client, call_counts, pc, question, max_retries, prompts,
                   answer, critique, attempt, is_final_answer_coherent, pending,
                   response, calls, result, raised, loads, checked, verdicts, inv>>

\* ask_zai called with a small budget
ask_zai_small ==
    /\ ask_zai
    /\ max_retries' <= MaxRetriesSmall

NextSnapshot ==
    \/ ask_zai_small
    \/ mock_create_async
    \/ script_create_async
    \/ script_raise
    \/ resume_initial
    \/ resume_critique
    \/ resume_improve
    \/ client_mutates

\* the configuration plays no part here: config.yaml is absent
InitSnapshot ==
    /\ Init
    /\ config.file = "absent"

SpecSnapshot == InitSnapshot /\ [][NextSnapshot]_vars

\* every list the client did not change holds what it held when it was
\* handed over; the conversation is the one ask_zai built, and each call
\* carries the whole conversation of the call before
SnapshotsKept ==
    /\ \A n \in DOMAIN calls \ touched : View(n) = calls[n].messages
    /\ calls # <<>> => messages = LastCall.messages
    /\ \A n \in 1..(Len(calls) - 1) : IsPrefix(calls[n].messages, calls[n + 1].messages)

\* a step in which the client changes its list leaves the conversation alone
ClientCannotReach == touched' # touched => messages' = messages

\* C19: every client call receives its own snapshot of the conversation:
\* what ask_zai appends after a call was issued never shows in the list
\* handed to that call, and a client that adds or removes elements of the
\* list it received changes neither the conversation nor what later calls
\* are sent.
C19_Snapshots ==
    /\ []SnapshotsKept
    /\ [][ClientCannotReach]_vars

\* the client changed the list of the first call; two more calls were
\* issued since, and the list of the second, untouched, is shorter than the
\* conversation by now
C19_Witness ==
    /\ touched = {1}
    /\ Len(calls) = 3
    /\ lists[1] # calls[1].messages
    /\ lists[2] = calls[2].messages
    /\ Len(lists[2]) < Len(messages)
    /\ messages = calls[3].messages

\* ---------------------------------------------------------------------- C20
\* C20: when the improve answer of attempt a is incoherent (then
\* a + 1 <= max_retries), the InitialRequest of attempt a + 1 is sent with
\* the conversation of the failed self-correction round, which ends with
\* user(improve_prompt); the conversation sent at the InitialRequest of
\* attempt a has exactly 2 + 4a messages.
C20_HistoryKept ==
    \A n \in DOMAIN calls :
        /\ calls[n].kind = "initial" => Len(calls[n].messages) = 2 + 4 * calls[n].attempt
        /\ calls[n].kind = "improve" => calls[n].attempt + 1 <= max_retries
        /\ (calls[n].kind = "improve" /\ Incoherent(calls[n]) /\ Observed(n)) =>
              /\ Len(calls) >= n + 1
              /\ calls[n + 1].kind = "initial"
              /\ calls[n + 1].attempt = calls[n].attempt + 1
              /\ calls[n + 1].messages = calls[n].messages
              /\ last(calls[n + 1].messages) = Message("user", prompts.improve_prompt)
              /\ calls[n + 1].messages[Len(calls[n + 1].messages) - 1] =
                    Message("assistant", calls[n - 1].text)

\* the InitialRequest of the third attempt is in flight with 10 messages,
\* the last of them the improve prompt
C20_Witness ==
    /\ pc = "await_initial"
    /\ attempt = 2
    /\ Len(calls) = 7
    /\ Incoherent(calls[6])
    /\ Len(pending) = 10
    /\ last(pending).role = "user"
    /\ last(pending).content = prompts.improve_prompt

\* ---------------------------------------------------------------------- C21
\* two runs of ask_zai side by side, inv.local[1] and inv.local[2]: the same
\* question, budget and configuration, the same reply to every call but the
\* critique calls, whose texts the client chooses freely for each run

\* what a critique call may return: coherent, empty, ending with "..."
CritiqueTexts == {<<"v">>, <<>>, <<"v", ".", ".", ".">>}

InitPair ==
    /\ InitConcurrent
    /\ client.kind = "script"

\* both runs start
pair_ask_zai ==
    /\ inv.local[1].pc = "idle"
    /\ inv.local[2].pc = "idle"
    /\ \E q \in ConcQuestions, r \in 0..MaxRetriesSmall :
          LET e1 == entered(q, r, config, ConvOf(1))
              e2 == entered(q, r, config, ConvOf(2))
          IN  inv' = [local |-> [inv.local EXCEPT ![1] = e1.l, ![2] = e2.l],
                      conv  |-> [inv.conv EXCEPT ![conversation_of(1)] = e1.m,
                                                 ![conversation_of(2)] = e2.m]]
    /\ UNCHANGED call_counts
    /\ UNCHANGED solo_vars

\* the replies t1 to run 1 and t2 to run 2
pair_replied(exc, t1, t2) ==
    inv' = [inv EXCEPT
              !.local[1].response = [exc |-> exc, text |-> t1],
              !.local[1].calls[Len(inv.local[1].calls)].exc = exc,
              !.local[1].calls[Len(inv.local[1].calls)].text = t1,
              !.local[2].response = [exc |-> exc, text |-> t2],
              !.local[2].calls[Len(inv.local[2].calls)].exc = exc,
              !.local[2].calls[Len(inv.local[2].calls)].text = t2]

\* the client answers a call that is no critique call: the same to both
pair_create_async ==
    /\ InFlight(inv.local[1])
    /\ InFlight(inv.local[2])
    /\ inv.local[1].pc # "await_critique"
    /\ inv.local[2].pc # "await_critique"
    /\ \/ \E t \in ConcAnswers : pair_replied(NoExc, t, t)
       \/ pair_replied("ServerError", <<>>, <<>>)
    /\ UNCHANGED call_counts
    /\ UNCHANGED solo_vars

\* the client answers the critique calls: any text to each
pair_critique_create_async ==
    /\ InFlight(inv.local[1])
    /\ InFlight(inv.local[2])
    /\ inv.local[1].pc = "await_critique"
    /\ inv.local[2].pc = "await_critique"
    /\ \E t1 \in CritiqueTexts, t2 \in CritiqueTexts : pair_replied(NoExc, t1, t2)
    /\ UNCHANGED call_counts
    /\ UNCHANGED solo_vars

\* both runs take their reply
pair_resume ==
    /\ inv.local[1].response # NoResponse
    /\ inv.local[2].response # NoResponse
    /\ LET e1 == resumed(inv.local[1], ConvOf(1))
           e2 == resumed(inv.local[2], ConvOf(2))
       IN  inv' = [local |-> [inv.local EXCEPT ![1] = e1.l, ![2] = e2.l],
                   conv  |-> [inv.conv EXCEPT ![conversation_of(1)] = e1.m,
                                              ![conversation_of(2)] = e2.m]]
    /\ UNCHANGED call_counts
    /\ UNCHANGED solo_vars

NextPair ==
    \/ pair_ask_zai
    \/ pair_create_async
    \/ pair_critique_create_async
    \/ pair_resume

SpecPair == InitPair /\ [][NextPair]_vars

\* what of a run is control flow: where it is, what it called and in which
\* attempt, what came back as answer or failure, what it returned
Flow(l) ==
    [pc |-> l.pc, attempt |-> l.attempt, result |-> l.result, raised |-> l.raised,
     final |-> l.is_final_answer_coherent, answer |-> l.answer,
     calls |-> [n \in DOMAIN l.calls |->
                  [kind |-> l.calls[n].kind, attempt |-> l.calls[n].attempt,
                   exc |-> l.calls[n].exc,
                   text |-> IF l.calls[n].kind = "critique" THEN <<>>
                            ELSE l.calls[n].text]]]

\* C21: the coherence verdict of a critique text never influences control
\* flow: two runs that differ only in the critique texts the client returns
\* (coherent, empty or ending with "...") are at every moment at the same
\* place, have issued the same calls in the same attempts and return the
\* same.
C21_CritiqueIgnored == Flow(inv.local[1]) = Flow(inv.local[2])

\* one run got a coherent critique, the other an empty one; both went on to
\* the improve call and returned its answer
C21_Witness ==
    /\ inv.local[1].pc = "done"
    /\ inv.local[2].pc = "done"
    /\ Len(inv.local[1].calls) = 3
    /\ Len(inv.local[2].calls) = 3
    /\ is_coherent(inv.local[1].critique)
    /\ inv.local[2].critique = <<>>
    /\ ConvOf(1) # ConvOf(2)

\* ---------------------------------------------------------------------- C22
\* the contents of the assistant messages of a conversation that alternates
\* from its third message on
AssistantTexts(msgs) ==
    [k \in 1..((Len(msgs) - 2) \div 2) |-> msgs[2 * k + 1].content]

\* the texts the client returned to the first n calls that ask_zai puts
\* back into the conversation (those of the improve calls it does not)
RECURSIVE FedBack(_)
FedBack(n) ==
    IF n = 0 THEN <<>>
    ELSE IF calls[n].kind = "improve" THEN FedBack(n - 1)
    ELSE Append(FedBack(n - 1), calls[n].text)

\* system, user, then assistant, user, ... to the end
Alternates(msgs) ==
    /\ Len(msgs) >= 2
    /\ Len(msgs) % 2 = 0
    /\ msgs[1].role = "system"
    /\ \A i \in 2..Len(msgs) :
          msgs[i].role = (IF i % 2 = 0 THEN "user" ELSE "assistant")
    /\ msgs[Len(msgs)].role = "user"

\* C22: every conversation handed to the client has an even number of
\* messages with the roles system, user, then assistant, user alternating to
\* the end, so it ends with a user message; its assistant messages are texts
\* the client returned to earlier calls of the invocation, in the order
\* returned (those of the initial and critique calls, none left out).
C22_Alternation ==
    \A n \in DOMAIN calls :
        /\ Alternates(calls[n].messages)
        /\ AssistantTexts(calls[n].messages) = FedBack(n - 1)
        /\ \A k \in DOMAIN FedBack(n - 1) : \E j \in 1..(n - 1) :
              /\ Answered(calls[j])
              /\ calls[j].text = FedBack(n - 1)[k]

\* the improve call of the second round carries 10 messages, 4 of them the
\* client's own earlier texts
C22_Witness ==
    /\ Len(calls) = 6
    /\ calls[6].kind = "improve"
    /\ Len(calls[6].messages) = 10
    /\ Len(AssistantTexts(calls[6].messages)) = 4
    /\ AssistantTexts(calls[6].messages) =
          <<calls[1].text, calls[2].text, calls[4].text, calls[5].text>>
    /\ calls[1].text # calls[2].text

\* ---------------------------------------------------------------------- C23
\* Done(coherent): the loop was left by a break after is_coherent(answer)
DoneCoherent == pc = "done" /\ is_final_answer_coherent

\* C23 as stated: the text returned in Done(coherent) is non-empty after
\* trimming and does not end with "..."
C23_Claimed ==
    DoneCoherent =>
        /\ strip(result) # <<>>
        /\ ~endswith(strip(result), Ellipsis)

\* C23 (amended): whenever ask_zai ends in Done(coherent), the answer it
\* tested is the last reply, is non-empty before trimming and passes
\* is_coherent; the text returned is that answer trimmed and does not end
\* with "...", and it is empty exactly when the answer was whitespace only.
C23_DoneCoherent ==
    DoneCoherent =>
        /\ calls # <<>>
        /\ Answered(LastCall)
        /\ LastCall.kind \in {"initial", "improve"}
        /\ answer = LastCall.text
        /\ answer # <<>>
        /\ is_coherent(answer)
        /\ result = strip(answer)
        /\ strip(result) = result
        /\ ~endswith(result, Ellipsis)
        /\ (result = <<>>) = AllWhitespace(answer)

\* an improve call was answered with whitespace only: the loop was left as
\* coherent and the empty text returned
C23_Witness ==
    /\ DoneCoherent
    /\ Len(calls) = 3
    /\ LastCall.kind = "improve"
    /\ LastCall.text = <<" ">>
    /\ result = <<>>

\* the usual case: a coherent answer with text, returned trimmed
C23_Plain ==
    /\ DoneCoherent
    /\ calls # <<>>
    /\ LastCall.text = <<" ", "a", " ">>
    /\ result = <<"a">>

====
